---- MODULE Spec2Model ----
(***************************************************************************)
(* A model of app.py, the medical assistant chatbot: the cascade of        *)
(* detectors behind POST /chat, the symptom checker and the per-session    *)
(* dialog history kept in the Flask session.                               *)
(*                                                                         *)
(* Text is modelled as TLA+ strings: Len, SubSeq and \o work on them       *)
(* character by character, so `x in t`, lower(), strip() and re.split are  *)
(* computed as Python computes them.  Two characters of the source that    *)
(* are not ASCII are written in ASCII: the warning sign as "(!)" and the   *)
(* long dash as "-".                                                       *)
(***************************************************************************)
EXTENDS Integers, Sequences, FiniteSets, TLC

VARIABLES
    MED_KB,     \* app.py:17-18  the knowledge base loaded at process start
    INDEX,      \* app.py:23-28  the keyword index built from MED_KB
    session,    \* the Flask session of the one client (its cookie)
    request,    \* the JSON payload of the last /chat request
    response,   \* the response to the last request
    inflight,   \* overlapping requests: the session copy each one works on
    reloads,    \* how many times the process was restarted on a new file
    probe       \* the last direct call of a helper: function, input, result

vars == <<MED_KB, INDEX, session, request, response, inflight, reloads, probe>>

\* Python's None, as it is stored in a turn and returned by the helpers.
None == "None"

(***************************************************************************)
(* Python's text primitives.                                               *)
(***************************************************************************)
UPPERCASE == "ABCDEFGHIJKLMNOPQRSTUVWXYZ"
LOWERCASE == "abcdefghijklmnopqrstuvwxyz"

LowerMap ==
    [c \in {SubSeq(UPPERCASE, i, i) : i \in 1..26} |->
        LET i == CHOOSE n \in 1..26 : SubSeq(UPPERCASE, n, n) = c
        IN  SubSeq(LOWERCASE, i, i)]

\* str.lower(): every upper-case letter is replaced, the rest is kept.
RECURSIVE lower(_)
lower(t) ==
    IF Len(t) = 0 THEN t
    ELSE IF Len(t) = 1 THEN (IF t \in DOMAIN LowerMap THEN LowerMap[t] ELSE t)
    ELSE LET h == Len(t) \div 2
         IN  lower(SubSeq(t, 1, h)) \o lower(SubSeq(t, h + 1, Len(t)))

\* w occurs in t at position i
StartsAt(w, t, i) == i >= 1 /\ i + Len(w) - 1 <= Len(t) /\ SubSeq(t, i, i + Len(w) - 1) = w

\* `k in t` of two strings: k occurs in t as a contiguous substring.
In(k, t) == \E i \in 1..(Len(t) - Len(k) + 1) : StartsAt(k, t, i)

Whitespace == {" ", "\t", "\n", "\r"}

\* str.strip(): leading and trailing whitespace is removed.
RECURSIVE strip(_)
strip(t) ==
    IF Len(t) = 0 THEN t
    ELSE IF SubSeq(t, 1, 1) \in Whitespace THEN strip(SubSeq(t, 2, Len(t)))
    ELSE IF SubSeq(t, Len(t), Len(t)) \in Whitespace THEN strip(SubSeq(t, 1, Len(t) - 1))
    ELSE t

\* "sep".join(parts)
RECURSIVE join(_, _)
join(sep, parts) ==
    IF Len(parts) = 0 THEN ""
    ELSE IF Len(parts) = 1 THEN parts[1]
    ELSE parts[1] \o sep \o join(sep, Tail(parts))

\* [f(x) for x in s if keep(x)] is written with SelectSeq and a map.
Map(f(_), s) == [i \in 1..Len(s) |-> f(s[i])]

\* re: \w, the class of word characters (ASCII letters, digits, underscore).
WordChars == {SubSeq(UPPERCASE, i, i) : i \in 1..26} \cup {SubSeq(LOWERCASE, i, i) : i \in 1..26}
             \cup {"0", "1", "2", "3", "4", "5", "6", "7", "8", "9", "_"}

IsWordAt(t, i) == i >= 1 /\ i <= Len(t) /\ SubSeq(t, i, i) \in WordChars

\* re: \b holds between positions i-1 and i when exactly one side is a word character.
Boundary(t, i) == IsWordAt(t, i - 1) # IsWordAt(t, i)

\* re.search(r"\bw\b", t) for a literal w.
SearchWord(w, t) ==
    \E i \in 1..(Len(t) - Len(w) + 1) :
        /\ StartsAt(w, t, i)
        /\ Boundary(t, i)
        /\ Boundary(t, i + Len(w))

\* re.split(r",|;| and ", msg): the separators, tried in this order at each position.
Separators == <<",", ";", " and ">>

SepAt(t, i) ==
    IF \E n \in 1..Len(Separators) : StartsAt(Separators[n], t, i)
    THEN Len(Separators[CHOOSE n \in 1..Len(Separators) :
                 /\ StartsAt(Separators[n], t, i)
                 /\ \A m \in 1..(n - 1) : ~StartsAt(Separators[m], t, i)])
    ELSE 0

RECURSIVE split(_)
split(t) ==
    IF \E i \in 1..Len(t) : SepAt(t, i) > 0
    THEN LET i == CHOOSE n \in 1..Len(t) : SepAt(t, n) > 0 /\ \A m \in 1..(n - 1) : SepAt(t, m) = 0
         IN  <<SubSeq(t, 1, i - 1)>> \o split(SubSeq(t, i + SepAt(t, i), Len(t)))
    ELSE <<t>>

(***************************************************************************)
(* Resources.  medical_knowledge.json and medicines.json are data files    *)
(* read at start; the entries below are a small knowledge base in the      *)
(* format app.py reads, with keys that PRECAUTION_MAP names.  A Python      *)
(* dict keeps the order of the file, so the knowledge base is a sequence.  *)
(***************************************************************************)
KnowledgeFull ==
    << [key |-> "fever",
        item |-> [title |-> "Fever", symptoms |-> <<"chills">>,
                  description |-> "A temporary rise in body temperature.",
                  when_to_seek_care |-> "Temperature above 39.4 C or lasting more than three days."]],
       [key |-> "sore_throat",
        item |-> [title |-> "Sore Throat", symptoms |-> <<>>,
                  description |-> "Pain or irritation of the throat.",
                  when_to_seek_care |-> "Trouble swallowing or lasting more than a week."]],
       [key |-> "headache",
        item |-> [title |-> "Headache", symptoms |-> <<>>,
                  description |-> "Pain in any region of the head.",
                  when_to_seek_care |-> "Sudden severe pain or pain after an injury."]] >>

\* The same file after an edit that drops the last condition.
KnowledgeReduced == SubSeq(KnowledgeFull, 1, 2)

\* medical_knowledge.json as it is on disk at the n-th start of the process.
KnowledgeFile(n) == IF n % 2 = 0 THEN KnowledgeFull ELSE KnowledgeReduced

\* medicines.json: condition key -> list of medicines.
MEDICINES ==
    [k \in {"fever", "headache"} |->
        IF k = "fever"
        THEN << [name |-> "Paracetamol", use |-> "Reduces temperature",
                 warning |-> "Do not exceed the labelled dose"] >>
        ELSE << [name |-> "Ibuprofen", use |-> "Relieves pain",
                 warning |-> "Take with food"] >>]

\* dict access by key on the ordered knowledge base
Keys(kb) == Map(LAMBDA e : e.key, kb)
HasKey(kb, k) == \E i \in 1..Len(kb) : kb[i].key = k
Item(kb, k) == kb[CHOOSE i \in 1..Len(kb) : kb[i].key = k].item

\* A Python set has no defined iteration order: the orders a set of strings
\* can be iterated in are the permutations of its elements.
Orders(S) == {q \in [1..Cardinality(S) -> S] : {q[i] : i \in 1..Cardinality(S)} = S}

Range(s) == {s[i] : i \in 1..Len(s)}

\* app.py:23-28.  The keyword set of an entry, and the indexes the loop can
\* build: one per iteration order of the keyword sets.
KeywordSet(item) == {lower(item.title)} \cup {lower(s) : s \in Range(item.symptoms)}

BuildIndex(kb) ==
    {ix \in [1..Len(kb) -> UNION {[key : {kb[i].key}, title : {kb[i].item.title},
                                   keywords : Orders(KeywordSet(kb[i].item))] : i \in 1..Len(kb)}] :
        \A i \in 1..Len(kb) : ix[i].key = kb[i].key}

EMERGENCY_SIGNS ==
    << "chest pain", "cannot breathe", "difficulty breathing", "severe bleeding",
       "unconscious", "seizure", "blue lips", "stroke", "sudden weakness", "fainting" >>

DISCLAIMER ==
    "(!) I provide general health information only - not medical advice. "
    \o "If you think it's an emergency, contact your local emergency services immediately."

(***************************************************************************)
(* Scores.  A score is the fraction num/den; the floats of the source are  *)
(* quotients of small integers, so comparing the fractions exactly gives   *)
(* what comparing the floats gives.                                        *)
(***************************************************************************)
Frac(n, d) == [num |-> n, den |-> d]
One == Frac(1, 1)
Zero == Frac(0, 1)
Lt(x, y) == x.num * y.den < y.num * x.den
Le(x, y) == x.num * y.den <= y.num * x.den
Same(x, y) == x.num * y.den = y.num * x.den

\* round(s, 3), in thousandths (no score of the model lies half way
\* between two thousandths).
Round3(x) == Frac((2000 * x.num + x.den) \div (2 * x.den), 1000)

\* list.sort(key=lambda x: x[1], reverse=True): a stable sort, the higher
\* score first, equal scores in their order of insertion.
RECURSIVE SortByScore(_)
SortByScore(s) ==
    IF Len(s) <= 1 THEN s
    ELSE LET rest == SortByScore(SubSeq(s, 1, Len(s) - 1))
             x    == s[Len(s)]
             n    == Cardinality({i \in 1..Len(rest) : Le(x.score, rest[i].score)})
         IN  SubSeq(rest, 1, n) \o <<x>> \o SubSeq(rest, n + 1, Len(rest))

(***************************************************************************)
(* difflib.SequenceMatcher(None, a, b).ratio(): Ratcliff/Obershelp.  The   *)
(* longest block common to a and b is matched (the one starting earliest   *)
(* in a, then earliest in b), then the pieces to its left and to its right *)
(* recursively; the ratio is 2 * matched / (len(a) + len(b)).  The texts   *)
(* are shorter than 200 characters, so difflib treats no character as junk.*)
(***************************************************************************)
Min(x, y) == IF x < y THEN x ELSE y
Max(x, y) == IF x > y THEN x ELSE y

\* length of the longest common block starting at a[i] and b[j], given the
\* most characters m that are left on both sides
BlockOf(a, b, i, j, m) ==
    IF SubSeq(a, i, i) # SubSeq(b, j, j) THEN 0
    ELSE CHOOSE k \in 1..m :
            /\ SubSeq(a, i, i + k - 1) = SubSeq(b, j, j + k - 1)
            /\ (k < m => SubSeq(a, i + k, i + k) # SubSeq(b, j + k, j + k))

BlockAt(a, b, i, j) == BlockOf(a, b, i, j, Min(Len(a) - i + 1, Len(b) - j + 1))

\* the common blocks of a and b, one per pair of start positions
Blocks(a, b) == {[i |-> i, j |-> j, size |-> BlockAt(a, b, i, j)] : i \in 1..Len(a), j \in 1..Len(b)}

\* difflib prefers the longer block, then the one starting earlier in a, then
\* the one starting earlier in b
Preferred(x, y) ==
    \/ x.size > y.size
    \/ x.size = y.size /\ x.i < y.i
    \/ x.size = y.size /\ x.i = y.i /\ x.j < y.j

LongestOf(blocks) == CHOOSE x \in blocks : \A y \in blocks \ {x} : Preferred(x, y)

find_longest_match(a, b) ==
    IF Len(a) = 0 \/ Len(b) = 0 \/ \A x \in Blocks(a, b) : x.size = 0
    THEN [i |-> 1, j |-> 1, size |-> 0]
    ELSE LongestOf(Blocks(a, b))

\* the characters matched in a and b: the longest block m, then the pieces
\* to its left and to its right
RECURSIVE Matched(_, _), MatchedAround(_, _, _)
MatchedAround(a, b, m) ==
    IF m.size = 0 THEN 0
    ELSE m.size + Matched(SubSeq(a, 1, m.i - 1), SubSeq(b, 1, m.j - 1))
                + Matched(SubSeq(a, m.i + m.size, Len(a)), SubSeq(b, m.j + m.size, Len(b)))

Matched(a, b) == MatchedAround(a, b, find_longest_match(a, b))

ratio(a, b) ==
    IF Len(a) + Len(b) = 0 THEN One ELSE Frac(2 * Matched(a, b), Len(a) + Len(b))

\* the acceptance threshold of the fuzzy tier, 0.45
FuzzyThreshold == Frac(45, 100)

(***************************************************************************)
(* Matching and symptom checker, app.py:66-110.                            *)
(***************************************************************************)
\* check_emergency with the loop keeping the last phrase found instead of
\* returning at the first
check_emergency_last(msg) ==
    LET t == lower(msg)
    IN  IF \E i \in 1..Len(EMERGENCY_SIGNS) : In(EMERGENCY_SIGNS[i], t)
        THEN [emergency |-> TRUE,
              sign |-> EMERGENCY_SIGNS[CHOOSE i \in 1..Len(EMERGENCY_SIGNS) :
                           /\ In(EMERGENCY_SIGNS[i], t)
                           /\ \A j \in (i + 1)..Len(EMERGENCY_SIGNS) : ~In(EMERGENCY_SIGNS[j], t)]]
        ELSE [emergency |-> FALSE, sign |-> None]

check_emergency(msg) ==
    LET t == lower(msg)
    IN  IF \E i \in 1..Len(EMERGENCY_SIGNS) : In(EMERGENCY_SIGNS[i], t)
        THEN [emergency |-> TRUE,
              sign |-> EMERGENCY_SIGNS[CHOOSE i \in 1..Len(EMERGENCY_SIGNS) :
                           /\ In(EMERGENCY_SIGNS[i], t)
                           /\ \A j \in 1..(i - 1) : ~In(EMERGENCY_SIGNS[j], t)]]
        ELSE [emergency |-> FALSE, sign |-> None]

\* combined = meta["title"].lower() + " " + " ".join(meta["keywords"])
Combined(meta) == lower(meta.title) \o " " \o join(" ", meta.keywords)

\* the acceptance test with `>` in place of `>=`
BestAbove_strict(scores) ==
    IF Len(scores) > 0 /\ Lt(FuzzyThreshold, scores[1].score)
    THEN [key |-> scores[1].key, score |-> scores[1].score]
    ELSE [key |-> None, score |-> Zero]

\* app.py:91-93: the best score is accepted from the threshold on
BestAbove(scores) ==
    IF Len(scores) > 0 /\ Le(FuzzyThreshold, scores[1].score)
    THEN [key |-> scores[1].key, score |-> scores[1].score]
    ELSE [key |-> None, score |-> Zero]

\* app.py:90-93: the list of (key, score) is sorted, then its head is tested
FuzzySelect(scores) == BestAbove(SortByScore(scores))

\* the fuzzy fallback of find_condition_simple, app.py:84-93
FuzzyFallback(index, t) ==
    FuzzySelect([i \in 1..Len(index) |->
                    [key |-> index[i].key, score |-> ratio(t, Combined(index[i]))]])

\* does some non-empty keyword of the entry occur in t (app.py:81-83)
KeywordHit(meta, t) == \E n \in 1..Len(meta.keywords) : meta.keywords[n] # "" /\ In(meta.keywords[n], t)

\* find_condition_simple with the keyword tier tried before the key tier
find_condition_simple_keywords_first(kb, index, msg) ==
    LET t == lower(msg)
    IN  IF \E i \in 1..Len(index) : KeywordHit(index[i], t)
        THEN [key |-> index[CHOOSE i \in 1..Len(index) :
                          KeywordHit(index[i], t) /\ \A j \in 1..(i - 1) : ~KeywordHit(index[j], t)].key,
              score |-> One]
        ELSE IF \E i \in 1..Len(kb) : In(kb[i].key, t)
        THEN [key |-> kb[CHOOSE i \in 1..Len(kb) :
                          In(kb[i].key, t) /\ \A j \in 1..(i - 1) : ~In(kb[j].key, t)].key,
              score |-> One]
        ELSE FuzzyFallback(index, t)

\* find_condition_simple without the keyword tier: the key tier, then the
\* fuzzy fallback
find_condition_simple_no_keyword_tier(kb, index, msg) ==
    LET t == lower(msg)
    IN  IF \E i \in 1..Len(kb) : In(kb[i].key, t)
        THEN [key |-> kb[CHOOSE i \in 1..Len(kb) :
                          In(kb[i].key, t) /\ \A j \in 1..(i - 1) : ~In(kb[j].key, t)].key,
              score |-> One]
        ELSE FuzzyFallback(index, t)

find_condition_simple(kb, index, msg) ==
    LET t == lower(msg)
    IN  IF \E i \in 1..Len(kb) : In(kb[i].key, t)
        THEN [key |-> kb[CHOOSE i \in 1..Len(kb) :
                          In(kb[i].key, t) /\ \A j \in 1..(i - 1) : ~In(kb[j].key, t)].key,
              score |-> One]
        ELSE IF \E i \in 1..Len(index) : KeywordHit(index[i], t)
        THEN [key |-> index[CHOOSE i \in 1..Len(index) :
                          KeywordHit(index[i], t) /\ \A j \in 1..(i - 1) : ~KeywordHit(index[j], t)].key,
              score |-> One]
        ELSE FuzzyFallback(index, t)

\* hits of one condition: the phrases of the list that contain some keyword
Hits(kw_set, symptoms_list) ==
    Cardinality({n \in 1..Len(symptoms_list) : \E kw \in kw_set : In(kw, symptoms_list[n])})

symptom_checker(index, symptoms_list, top_n) ==
    LET scored == SelectSeq(index, LAMBDA meta : {k \in Range(meta.keywords) : k # ""} # {})
        scores == SortByScore([i \in 1..Len(scored) |->
                      LET kw_set == {k \in Range(scored[i].keywords) : k # ""}
                      IN  [key |-> scored[i].key,
                           score |-> Frac(Hits(kw_set, symptoms_list), Max(1, Cardinality(kw_set)))]])
        kept   == SelectSeq(scores, LAMBDA e : Lt(Zero, e.score))
    IN  SubSeq(Map(LAMBDA e : [key |-> e.key, score |-> Round3(e.score)], kept),
               1, Min(top_n, Len(kept)))

(***************************************************************************)
(* Medicines and precautions helpers, app.py:113-185.                      *)
(***************************************************************************)
MedicineLine(m) == "- " \o m.name \o ": " \o m.use \o " (Warning: " \o m.warning \o ")"

get_medicine_text(condition_key) ==
    IF condition_key \in DOMAIN MEDICINES
    THEN join("\n", Map(MedicineLine, MEDICINES[condition_key]))
    ELSE None

PRECAUTION_MAP ==
    [k \in {"fever", "headache", "common_cold", "flu", "sore_throat", "minor_burn", "sprained_ankle"} |->
        CASE k = "fever" ->
                << "Rest and avoid strenuous activity.",
                   "Keep hydrated - drink plenty of fluids (water, ORS).",
                   "Monitor temperature regularly.",
                   "Avoid giving aspirin to children - use paracetamol for fever in children as per label and medical advice.",
                   "Avoid self-prescribing antibiotics unless a doctor recommends them." >>
          [] k = "headache" ->
                << "Rest in a quiet, dark room if light/noise worsens the headache.",
                   "Stay hydrated; avoid long screen time and eye strain.",
                   "Try relaxation/breathing exercises for tension headaches." >>
          [] k = "common_cold" ->
                << "Rest and increase fluid intake.",
                   "Use saline nasal spray and humidifier to ease congestion.",
                   "Avoid close contact with others while symptomatic." >>
          [] k = "flu" ->
                << "Rest, hydrate, and avoid contact with vulnerable people (elderly, infants).",
                   "Consider staying home until 24 hours after fever subsides without medicines." >>
          [] k = "sore_throat" ->
                << "Gargle warm salt water and drink warm fluids.",
                   "Avoid irritants like smoke and dry air." >>
          [] k = "minor_burn" ->
                << "Cool with running water (10-20 minutes).",
                   "Cover with sterile non-stick dressing; do not apply butter or toothpaste." >>
          [] k = "sprained_ankle" ->
                << "Follow RICE: Rest, Ice, Compression, Elevation.",
                   "Avoid putting weight on it until comfortable." >>]

GENERIC_PRECAUTIONS ==
    << "If symptoms worsen or you have severe signs (chest pain, difficulty breathing, fainting, severe bleeding), seek emergency care immediately.",
       "Avoid taking antibiotics or prescription medications without a doctor's advice.",
       "If you have allergies, chronic illnesses, or are pregnant, consult a healthcare professional before taking medicines.",
       "Keep track of symptom duration and severity; seek professional care if symptoms persist or worsen." >>

get_precaution_text(kb, condition_key) ==
    LET tips ==
            IF condition_key # None /\ condition_key \in DOMAIN PRECAUTION_MAP
            THEN PRECAUTION_MAP[condition_key] \o SubSeq(GENERIC_PRECAUTIONS, 1, 2)
            ELSE IF condition_key # None /\ HasKey(kb, condition_key)
            THEN << "Follow general supportive measures (rest, fluids, symptom relief).",
                    "Watch for red flags: " \o Item(kb, condition_key).when_to_seek_care >>
                 \o SubSeq(GENERIC_PRECAUTIONS, 1, 1)
            ELSE << "Provide clear symptom list (e.g., 'fever, cough, sore throat') so I can suggest likely conditions.",
                    "In the meantime: stay hydrated, rest, avoid self-prescribed antibiotics, monitor red-flag signs." >>
                 \o GENERIC_PRECAUTIONS
    IN  join("\n", Map(LAMBDA t : "- " \o t, tips))

(***************************************************************************)
(* Small talk and Q&A, app.py:188-222.  Every alternative of every pattern *)
(* is a literal between two \b, so a pattern is the list of its literals.  *)
(***************************************************************************)
SMALLTALK_PATTERNS ==
    << [words |-> <<"hi", "hello", "hey">>,
        responses |-> <<"Hello!", "Hi there!", "Hey - how can I help?">>],
       [words |-> <<"how are you", "how's it going">>,
        responses |-> <<"I'm a program, doing fine - ready to help!", "All good here - how are you?">>],
       [words |-> <<"what's up", "whats up">>,
        responses |-> <<"Not much - ready to chat or help with symptoms.">>],
       [words |-> <<"thanks", "thank you">>,
        responses |-> <<"You're welcome!", "Happy to help!">>],
       [words |-> <<"bye", "goodbye", "see you">>,
        responses |-> <<"Bye! Take care.", "Goodbye - stay safe.">>],
       [words |-> <<"what can you do", "what are you">>,
        responses |-> <<"I can provide general info about symptoms and suggest non-prescription options. I'm not a doctor.">>],
       [words |-> <<"today i want to discuss">>,
        responses |-> <<"Sure - tell me what topic you'd like to discuss. I can chat or help with health topics.">>] >>

QA_MAP ==
    << [q |-> "what two people communicate with each other",
        a |-> "Two people communicate information, ideas, feelings and intentions to each other. "
              \o "This can be through words, tone of voice, body language, or written messages. Good communication involves listening, clarity, and feedback."],
       [q |-> "what is communication",
        a |-> "Communication is the exchange of information between individuals or groups using spoken, written, visual, or nonverbal methods."],
       [q |-> "what is a symptom",
        a |-> "A symptom is something a person feels or notices that may indicate a condition or illness (e.g., pain, fever, cough)."],
       [q |-> "how to start a conversation",
        a |-> "Start with a friendly greeting, ask an open question (e.g., 'How are you?'), comment on something you both share, and show interest by listening."] >>

PatternHit(p, t) == \E n \in 1..Len(p.words) : SearchWord(p.words[n], t)

match_smalltalk(msg) ==
    LET t == lower(msg)
    IN  IF \E i \in 1..Len(QA_MAP) : In(QA_MAP[i].q, t)
        THEN QA_MAP[CHOOSE i \in 1..Len(QA_MAP) :
                 In(QA_MAP[i].q, t) /\ \A j \in 1..(i - 1) : ~In(QA_MAP[j].q, t)].a
        ELSE IF \E i \in 1..Len(SMALLTALK_PATTERNS) : PatternHit(SMALLTALK_PATTERNS[i], t)
        THEN SMALLTALK_PATTERNS[CHOOSE i \in 1..Len(SMALLTALK_PATTERNS) :
                 /\ PatternHit(SMALLTALK_PATTERNS[i], t)
                 /\ \A j \in 1..(i - 1) : ~PatternHit(SMALLTALK_PATTERNS[j], t)].responses[1]
        ELSE None

(***************************************************************************)
(* Session memory, app.py:41-49.  The session is a dict: it has the key    *)
(* "history" only once a turn was added.                                   *)
(***************************************************************************)
EmptySession == [k \in {} |-> <<>>]

Turn(user_text, bot_text, matched_condition) ==
    [user |-> user_text, bot |-> bot_text, condition |-> matched_condition]

\* add_to_history with the list set to [] on every call, not only when the
\* session has no history yet
add_to_history_reset(sess, user_text, bot_text, matched_condition) ==
    [history |-> <<Turn(user_text, bot_text, matched_condition)>>]

add_to_history(sess, user_text, bot_text, matched_condition) ==
    LET hist == IF "history" \in DOMAIN sess THEN sess.history ELSE <<>>
    IN  [history |-> Append(hist, Turn(user_text, bot_text, matched_condition))]

get_history(sess) == IF "history" \in DOMAIN sess THEN sess.history ELSE <<>>

\* `if x:` on a string or None: None and the empty string are false
Truthy(x) == x # None /\ x # ""

(***************************************************************************)
(* The texts of POST /chat, app.py:229-319.                                *)
(***************************************************************************)
INTENT_KEYWORDS ==
    << "precaution", "precautions", "precautionary", "medicine", "medicines", "medication",
       "drugs", "suggest medicine", "suggest me medicine", "what medicine", "what to take" >>

\* app.py:254-259
HasIntent(msg) ==
    LET lowered == lower(msg)
    IN  \E i \in 1..Len(INTENT_KEYWORDS) : In(INTENT_KEYWORDS[i], lowered)

NO_MEDICINE == "No non-prescription options found in the database."

FALLBACK ==
    "I couldn't identify a clear match. If you can list several symptoms separated by commas "
    \o "(for example: 'fever, cough, sore throat'), I can run a symptom-check to suggest possible conditions. "
    \o "Or specify the condition you'd like precautions/medicines for (e.g., 'for headache')."

BLANK_REPLY == "Please type your symptoms or question."

Digits == "0123456789"

RECURSIVE IntStr(_)
IntStr(n) == IF n < 10 THEN SubSeq(Digits, n + 1, n + 1)
             ELSE IntStr(n \div 10) \o SubSeq(Digits, (n % 10) + 1, (n % 10) + 1)

\* str() of a float rounded to 3 places: 1.5, 0.333, 1.0
FloatStr(x) ==
    LET whole == x.num \div 1000
        frac  == x.num % 1000
        d3    == IntStr(frac \div 100) \o IntStr((frac \div 10) % 10) \o IntStr(frac % 10)
        cut   == IF frac % 10 # 0 THEN 3 ELSE IF frac % 100 # 0 THEN 2 ELSE 1
    IN  IntStr(whole) \o "." \o SubSeq(d3, 1, cut)

\* app.py:242
EmergencyReply(sign) ==
    "(!) The symptom '" \o sign \o "' may be life-threatening. Contact emergency services immediately."

\* get_medicine_text(key) or "No non-prescription options ..."
MedicineOrNone(condition_key) ==
    IF Truthy(get_medicine_text(condition_key)) THEN get_medicine_text(condition_key) ELSE NO_MEDICINE

\* app.py:266-268
NamedConditionReply(kb, matched_cond) ==
    "Precautions for **" \o Item(kb, matched_cond).title \o "**:\n" \o get_precaution_text(kb, matched_cond)
    \o "\n\nNon-prescription suggestions:\n" \o MedicineOrNone(matched_cond) \o "\n\n" \o DISCLAIMER

\* app.py:274-276
PreviousConditionReply(kb, last_cond) ==
    "Based on your previous condition (**" \o Item(kb, last_cond).title
    \o "**), here are precautions and non-prescription suggestions:\n" \o get_precaution_text(kb, last_cond)
    \o "\n\nNon-prescription suggestions:\n" \o MedicineOrNone(last_cond) \o "\n\n" \o DISCLAIMER

\* app.py:280-281
GenericPrecautionsReply(kb) ==
    "I don't know which condition you mean. Here are general precautions you can follow while you tell me the specific condition:\n"
    \o get_precaution_text(kb, None)
    \o "\n\nPlease say the condition (e.g., 'for fever') or list symptoms (e.g., 'fever, cough').\n\n" \o DISCLAIMER

\* app.py:287
Parts(msg) == Map(LAMBDA p : lower(strip(p)), SelectSeq(split(msg), LAMBDA p : strip(p) # ""))

\* app.py:289
CandStructs(kb, candidates) ==
    Map(LAMBDA c : [key |-> c.key, title |-> Item(kb, c.key).title, score |-> c.score], candidates)

\* app.py:292-294
SymptomReply(kb, candidates) ==
    "Possible matches (symptom-checker):\n"
    \o join("", Map(LAMBDA c : "- " \o c.title \o " (score: " \o FloatStr(c.score) \o ")\n",
                    CandStructs(kb, candidates)))

\* app.py:302-306
ConditionReply(kb, cond) ==
    LET info     == Item(kb, cond)
        med_info == get_medicine_text(cond)
    IN  "**" \o info.title \o "**\nSymptoms: " \o join(", ", info.symptoms) \o "\n\n" \o info.description
        \o "\n\nWhen to seek care: " \o info.when_to_seek_care
        \o (IF Truthy(med_info) THEN "\n\nPossible non-prescription options:\n" \o med_info ELSE "")

\* What the detectors of chat() find in a message (app.py:240, 247, 254-259,
\* 262 and 287-288), given the knowledge base and the index of the process.
Detect(kb, index, msg) ==
    [em         |-> check_emergency(msg),
     small      |-> match_smalltalk(msg),
     intent     |-> HasIntent(msg),
     found      |-> find_condition_simple(kb, index, msg),
     candidates |-> symptom_checker(index, Parts(msg), 6)]

(***************************************************************************)
(* The requests the client sends, and the bounds of the model.             *)
(***************************************************************************)
JsonString(s) == [type |-> "string", value |-> s]
JsonNumber == [type |-> "number", value |-> "7"]
JsonNull == [type |-> "null", value |-> ""]

Req(m, sm) == [message |-> m, symptom_mode |-> sm]

Inputs ==
    { Req(JsonString("chest pain"), FALSE),
      Req(JsonString("Hi, medicine for fever? I had a stroke and chest pain"), TRUE),
      Req(JsonString("what is a symptom"), FALSE),
      Req(JsonString("hello, I have a Headache"), FALSE),
      Req(JsonString("thanks for the medicine"), FALSE),
      Req(JsonString("any precautions?"), FALSE),
      Req(JsonString("any precautions?"), TRUE),
      Req(JsonString("medicine for headache"), FALSE),
      Req(JsonString("fever"), FALSE),
      Req(JsonString("I have chills"), FALSE),
      Req(JsonString(" Headache "), FALSE),
      Req(JsonString("headache"), TRUE),
      Req(JsonString("fever, chills, fever"), TRUE),
      Req(JsonString("xyz"), FALSE),
      Req(JsonString("chill fevr"), FALSE),
      Req(JsonString("   "), TRUE),
      Req(JsonString(""), FALSE),
      Req(JsonNumber, FALSE) }

\* the longest history a session reaches
MaxHist == 3

\* requests of the one client that may overlap
MaxOverlap == 2

\* restarts of the process on an edited knowledge file
MaxReloads == 1

KnowledgeFiles == {KnowledgeFile(n) : n \in 0..MaxReloads}

(***************************************************************************)
(* Tables.  The detectors are pure functions of the message, the knowledge *)
(* base and the index; their results for the messages of Inputs are        *)
(* tabulated once, and so is the scan of the texts a turn without a        *)
(* condition can hold.  A table entry is the value of the operator it      *)
(* tabulates, and an argument outside a table is computed directly.        *)
(***************************************************************************)
InputMessages == {strip(d.message.value) : d \in {x \in Inputs : x.message.type = "string"}}

\* f with every value computed (f @@ g is f extended by g, and is stored as a table)
Tabulated(f) == f @@ <<>>

\* the entry of a table at a key, and the value computed directly off the table
Lookup(table, key, direct) == IF key \in DOMAIN table THEN table[key] ELSE direct

\* the pairs of a knowledge file and an index a process can build from it
Processes == UNION {{<<kb, index>> : index \in BuildIndex(kb)} : kb \in KnowledgeFiles}

DetectTable ==
    Tabulated([k \in {<<p[1], p[2], msg>> : p \in Processes, msg \in InputMessages} |->
                  Detect(k[1], k[2], k[3])])

Detected(kb, index, msg) == Lookup(DetectTable, <<kb, index, msg>>, Detect(kb, index, msg))

\* the first key of the knowledge base, in its order, that occurs in the text
FirstKeyIn(kb, t) ==
    IF \E i \in 1..Len(kb) : In(kb[i].key, t)
    THEN kb[CHOOSE i \in 1..Len(kb) : In(kb[i].key, t) /\ \A j \in 1..(i - 1) : ~In(kb[j].key, t)].key
    ELSE None

\* app.py:58-62, the fallback on the bot text of one turn
ScanBotText(kb, bot_text) == FirstKeyIn(kb, lower(bot_text))

\* the replies of symptom mode for the entries of a table of detections
SymptomTexts(table) == {SymptomReply(k[1], table[k].candidates) : k \in DOMAIN table}

\* the texts chat() stores in a turn with a null condition
NullTurnTexts ==
    {FALLBACK}
    \cup {EmergencyReply(EMERGENCY_SIGNS[i]) : i \in 1..Len(EMERGENCY_SIGNS)}
    \cup {QA_MAP[i].a : i \in 1..Len(QA_MAP)}
    \cup {SMALLTALK_PATTERNS[i].responses[1] : i \in 1..Len(SMALLTALK_PATTERNS)}
    \cup {GenericPrecautionsReply(kb) : kb \in KnowledgeFiles}
    \cup SymptomTexts(DetectTable)

ScanTable ==
    Tabulated([k \in {<<kb, t>> : kb \in KnowledgeFiles, t \in NullTurnTexts} |-> ScanBotText(k[1], k[2])])

Scanned(kb, bot_text) == Lookup(ScanTable, <<kb, bot_text>>, ScanBotText(kb, bot_text))

(***************************************************************************)
(* last_matched_condition_from_history, app.py:51-63: the loop             *)
(* `for entry in reversed(hist)`, from the newest turn down.               *)
(***************************************************************************)
\* one turn of the loop without the scan of the bot text
FromEntry_stored_only(kb, entry) ==
    IF Truthy(entry.condition) THEN entry.condition ELSE None

\* one turn of the loop, app.py:54-62: the stored condition if there is one,
\* else the key found in the bot text, else None
FromEntry(kb, entry) ==
    IF Truthy(entry.condition) THEN entry.condition ELSE Scanned(kb, entry.bot)

\* x if it is a key, else y
OrElse(x, y) == IF x # None THEN x ELSE y

RECURSIVE LastMatched(_, _)
LastMatched(kb, hist) ==
    IF Len(hist) = 0 THEN None
    ELSE OrElse(FromEntry(kb, hist[Len(hist)]), LastMatched(kb, SubSeq(hist, 1, Len(hist) - 1)))

last_matched_condition_from_history(sess) == LastMatched(MED_KB, get_history(sess))

(***************************************************************************)
(* POST /chat, app.py:229-319.  chat(sess, data) is the handler run on the *)
(* session sess with the JSON payload data: it gives the HTTP status, the  *)
(* JSON body and the session as the handler leaves it.  A JSON value is a  *)
(* record [type, value]; an exception raised inside the try block ends in  *)
(* ServerError, with the session as it is at that point.                   *)
(***************************************************************************)
\* the fault path with the error reply added to the history as a turn
ServerError_recorded(sess) ==
    [status |-> 500,
     body |-> [reply |-> "Server error occurred.", disclaimer |-> DISCLAIMER],
     session |-> add_to_history(sess, "", "Server error occurred.", None)]

ServerError(sess) ==
    [status |-> 500,
     body |-> [reply |-> "Server error occurred.", disclaimer |-> DISCLAIMER],
     session |-> sess]

\* a stage that answers: the turn is added, then the body carries get_history()
Answer(sess, msg, reply, matched_condition) ==
    LET after == add_to_history(sess, msg, reply, matched_condition)
    IN  [status |-> 200,
         body |-> [reply |-> reply, disclaimer |-> DISCLAIMER, history |-> get_history(after)],
         session |-> after]

\* app.py:263-283, the precaution/medicine intent
\* the intent stage with the turn of a named condition recording the title
\* shown in the reply instead of the key
IntentReply_records_title(sess, msg, matched_cond, last_cond) ==
    IF Truthy(matched_cond)
    THEN Answer(sess, msg, NamedConditionReply(MED_KB, matched_cond), Item(MED_KB, matched_cond).title)
    ELSE IF Truthy(last_cond)
    THEN IF HasKey(MED_KB, last_cond)
         THEN Answer(sess, msg, PreviousConditionReply(MED_KB, last_cond), last_cond)
         ELSE ServerError(sess)
    ELSE Answer(sess, msg, GenericPrecautionsReply(MED_KB), None)

\* the three branches of the intent stage, given the condition last_cond
\* that the history resolves to
IntentReply(sess, msg, matched_cond, last_cond) ==
    IF Truthy(matched_cond)
    THEN Answer(sess, msg, NamedConditionReply(MED_KB, matched_cond), matched_cond)
    ELSE IF Truthy(last_cond)
    THEN IF HasKey(MED_KB, last_cond)
         THEN Answer(sess, msg, PreviousConditionReply(MED_KB, last_cond), last_cond)
         ELSE ServerError(sess)   \* MED_KB[last_cond] raises KeyError
    ELSE Answer(sess, msg, GenericPrecautionsReply(MED_KB), None)

IntentStage(sess, msg, matched_cond) ==
    IntentReply(sess, msg, matched_cond, last_matched_condition_from_history(sess))

\* symptom mode with the best candidate recorded as the condition of the turn
SymptomStage_records_best(sess, msg, candidates) ==
    LET reply_text == SymptomReply(MED_KB, candidates)
        after      == add_to_history(sess, msg, reply_text,
                                     IF Len(candidates) > 0 THEN candidates[1].key ELSE None)
    IN  [status |-> 200,
         body |-> [reply |-> reply_text, candidates |-> CandStructs(MED_KB, candidates),
                   explanation |-> None, disclaimer |-> DISCLAIMER, history |-> get_history(after)],
         session |-> after]

\* app.py:286-297, symptom mode
SymptomStage(sess, msg, candidates) ==
    LET reply_text == SymptomReply(MED_KB, candidates)
        after      == add_to_history(sess, msg, reply_text, None)
    IN  [status |-> 200,
         body |-> [reply |-> reply_text, candidates |-> CandStructs(MED_KB, candidates),
                   explanation |-> None, disclaimer |-> DISCLAIMER, history |-> get_history(after)],
         session |-> after]

\* the clarification reply with the blank message added to the history as a turn
BlankResponse_recorded(sess) ==
    [status |-> 200,
     body |-> [reply |-> BLANK_REPLY, disclaimer |-> DISCLAIMER],
     session |-> add_to_history(sess, "", BLANK_REPLY, None)]

\* app.py:236-237, the reply to a blank message: the session is not touched
BlankResponse(sess) ==
    [status |-> 200,
     body |-> [reply |-> BLANK_REPLY, disclaimer |-> DISCLAIMER],
     session |-> sess]

\* the stages with symptom mode tested before the precaution/medicine intent
Stages_symptom_mode_first(sess, msg, symptom_mode, d) ==
    IF msg = ""
    THEN BlankResponse(sess)
    ELSE IF d.em.emergency THEN Answer(sess, msg, EmergencyReply(d.em.sign), None)
    ELSE IF Truthy(d.small) THEN Answer(sess, msg, d.small, None)
    ELSE IF symptom_mode THEN SymptomStage(sess, msg, d.candidates)
    ELSE IF d.intent THEN IntentStage(sess, msg, d.found.key)
    ELSE IF Truthy(d.found.key) THEN Answer(sess, msg, ConditionReply(MED_KB, d.found.key), d.found.key)
    ELSE Answer(sess, msg, FALLBACK, None)

\* app.py:236-315, the stages in the order of the code; d is what the
\* detectors find in msg
Stages(sess, msg, symptom_mode, d) ==
    IF msg = ""
    THEN BlankResponse(sess)
    ELSE IF d.em.emergency THEN Answer(sess, msg, EmergencyReply(d.em.sign), None)
    ELSE IF Truthy(d.small) THEN Answer(sess, msg, d.small, None)
    ELSE IF d.intent THEN IntentStage(sess, msg, d.found.key)
    ELSE IF symptom_mode THEN SymptomStage(sess, msg, d.candidates)
    ELSE IF Truthy(d.found.key) THEN Answer(sess, msg, ConditionReply(MED_KB, d.found.key), d.found.key)
    ELSE Answer(sess, msg, FALLBACK, None)

\* app.py:232-234: (data.get("message") or "").strip()
MessageOf(data) == strip(IF data.message.type = "string" THEN data.message.value ELSE "")

chat(sess, data) ==
    IF data.message.type \notin {"string", "null"}
    THEN ServerError(sess)              \* .strip() of a non-string raises AttributeError
    ELSE Stages(sess, MessageOf(data), data.symptom_mode, Detected(MED_KB, INDEX, MessageOf(data)))

(***************************************************************************)
(* The state machine.                                                      *)
(***************************************************************************)
NoRequest == Req(JsonNull, FALSE)
NoResponse == [status |-> 0, body |-> [reply |-> ""]]
Idle == [pc |-> "idle", data |-> NoRequest, session |-> EmptySession, modified |-> FALSE,
         response |-> NoResponse]
NoProbe == [fn |-> "", input |-> <<>>, output |-> <<>>]

Init ==
    /\ reloads = 0
    /\ MED_KB = KnowledgeFile(0)
    /\ INDEX \in BuildIndex(MED_KB)
    /\ session = EmptySession
    /\ request = NoRequest
    /\ response = NoResponse
    /\ inflight = [r \in 1..MaxOverlap |-> Idle]
    /\ probe = NoProbe

\* One request served from start to end with no other request of the client
\* in between: the session comes in with the cookie, chat() runs, and the
\* session it leaves goes back to the client with the response.
Chat(data) ==
    LET result == chat(session, data)
    IN  /\ Len(get_history(session)) < MaxHist
        /\ session' = result.session
        /\ request' = data
        /\ response' = [status |-> result.status, body |-> result.body]
        /\ UNCHANGED <<MED_KB, INDEX, inflight, reloads, probe>>

Next == \E data \in Inputs : Chat(data)

Spec == Init /\ [][Next]_vars

(***************************************************************************)
(* Overlapping requests.  The Flask session is the client's signed cookie: *)
(* a request carries the cookie the client holds when it is sent, the      *)
(* handler works on the session decoded from it, and the response carries  *)
(* the new cookie only if the handler set session.modified (app.py:46).    *)
(***************************************************************************)
ConcInputs ==
    { Req(JsonString("fever"), FALSE),
      Req(JsonString("xyz"), FALSE),
      Req(JsonString("any precautions?"), FALSE),
      Req(JsonString("chest pain"), FALSE),
      Req(JsonString("   "), TRUE) }

Send(r, data) ==
    /\ inflight[r].pc = "idle"
    /\ inflight' = [inflight EXCEPT ![r] = [pc |-> "sent", data |-> data, session |-> session,
                                            modified |-> FALSE, response |-> NoResponse]]
    /\ UNCHANGED <<MED_KB, INDEX, session, request, response, reloads, probe>>

Handle(r) ==
    LET result == chat(inflight[r].session, inflight[r].data)
    IN  /\ inflight[r].pc = "sent"
        /\ inflight' = [inflight EXCEPT ![r] = [pc |-> "handled", data |-> inflight[r].data,
                                                session |-> result.session,
                                                modified |-> (result.session # inflight[r].session),
                                                response |-> [status |-> result.status, body |-> result.body]]]
        /\ UNCHANGED <<MED_KB, INDEX, session, request, response, reloads, probe>>

Receive(r) ==
    /\ inflight[r].pc = "handled"
    /\ session' = IF inflight[r].modified THEN inflight[r].session ELSE session
    /\ request' = inflight[r].data
    /\ response' = inflight[r].response
    /\ inflight' = [inflight EXCEPT ![r].pc = "done"]
    /\ UNCHANGED <<MED_KB, INDEX, reloads, probe>>

NextConc ==
    \/ \E r \in 1..MaxOverlap : \E data \in ConcInputs : Send(r, data)
    \/ \E r \in 1..MaxOverlap : Handle(r)
    \/ \E r \in 1..MaxOverlap : Receive(r)

SpecConc == Init /\ [][NextConc]_vars

(***************************************************************************)
(* A restart of the process on an edited knowledge file (app.py:17-28 run  *)
(* again): the knowledge base and the index are rebuilt, and the client    *)
(* keeps its session cookie.                                               *)
(***************************************************************************)
Reload ==
    /\ reloads < MaxReloads
    /\ reloads' = reloads + 1
    /\ MED_KB' = KnowledgeFile(reloads + 1)
    /\ INDEX' \in BuildIndex(KnowledgeFile(reloads + 1))
    /\ UNCHANGED <<session, request, response, inflight, probe>>

NextReload == Next \/ Reload

SpecReload == Init /\ [][NextReload]_vars

(***************************************************************************)
(* Direct calls of the two pure helpers, on inputs drawn from small sets.  *)
(***************************************************************************)
\* the sequences over S of length 1..n
SeqsUpTo(S, n) == UNION {[1..k -> S] : k \in 1..n}

Words == {"fever", "Headache", "sore_throat", "sore throat", "chills", "fevr", "xyz"}

\* the longest probe message, in words
MaxWords == 2

ProbeMessages == {join(" ", ws) : ws \in SeqsUpTo(Words, MaxWords)}

SymptomPhrases == {"fever", "chills", "fever and chills", "headache", "cough"}

\* the longest symptom list probed
MaxSymptoms == 3

ProbeLists == SeqsUpTo(SymptomPhrases, MaxSymptoms)

\* symptom_checker's default top_n, app.py:95
DefaultTopN == 5

ProbeFind(msg) ==
    /\ probe = NoProbe
    /\ probe' = [fn |-> "find_condition_simple", input |-> msg,
                 output |-> find_condition_simple(MED_KB, INDEX, msg)]
    /\ UNCHANGED <<MED_KB, INDEX, session, request, response, inflight, reloads>>

ProbeSymptoms(symptoms_list) ==
    /\ probe = NoProbe
    /\ probe' = [fn |-> "symptom_checker", input |-> symptoms_list,
                 output |-> symptom_checker(INDEX, symptoms_list, DefaultTopN)]
    /\ UNCHANGED <<MED_KB, INDEX, session, request, response, inflight, reloads>>

\* the ratios given to the conditions in a probe of the fuzzy tier: below
\* the threshold, at it (written in two ways), and above it
ProbeRatios == {Frac(449, 1000), Frac(45, 100), Frac(9, 20), Frac(1, 2)}

\* the lists of (key, ratio) the loop of app.py:86-89 can hand to the sort,
\* one entry per condition in the order of the knowledge base, for an index
\* of 0 to Len(KnowledgeFull) conditions
ProbeScores ==
    UNION {{[i \in 1..n |-> [key |-> KnowledgeFull[i].key, score |-> r[i]]] : r \in [1..n -> ProbeRatios]} :
              n \in 0..Len(KnowledgeFull)}

ProbeFuzzy(scores) ==
    /\ probe = NoProbe
    /\ probe' = [fn |-> "fuzzy", input |-> scores, output |-> FuzzySelect(scores)]
    /\ UNCHANGED <<MED_KB, INDEX, session, request, response, inflight, reloads>>

NextFn ==
    \/ \E msg \in ProbeMessages : ProbeFind(msg)
    \/ \E symptoms_list \in ProbeLists : ProbeSymptoms(symptoms_list)
    \/ \E scores \in ProbeScores : ProbeFuzzy(scores)

SpecFn == Init /\ [][NextFn]_vars

(***************************************************************************)
(* Properties.                                                             *)
(***************************************************************************)
\* the history of the client's session, and its newest turn
History == get_history(session)
LastTurn == History[Len(History)]

\* the last request carried a message that is a string and not blank
NonBlank == request.message.type = "string" /\ strip(request.message.value) # ""
Message == strip(request.message.value)

\* a request was answered
Answered == response.status # 0

ContainsSign(t) == \E i \in 1..Len(EMERGENCY_SIGNS) : In(EMERGENCY_SIGNS[i], t)

\* C1: a non-blank message whose lowercased text contains an emergency
\* phrase is answered with the emergency warning that names the first such
\* phrase of EMERGENCY_SIGNS, and the turn added for it has a null condition,
\* whatever the symptom_mode flag, the history and the other matches of the
\* message.
EmergencyFirst ==
    (Answered /\ NonBlank /\ ContainsSign(lower(Message))) =>
        \E i \in 1..Len(EMERGENCY_SIGNS) :
            /\ In(EMERGENCY_SIGNS[i], lower(Message))
            /\ \A j \in 1..(i - 1) : ~In(EMERGENCY_SIGNS[j], lower(Message))
            /\ response.status = 200
            /\ response.body.reply = EmergencyReply(EMERGENCY_SIGNS[i])
            /\ Len(History) > 0
            /\ LastTurn = Turn(Message, EmergencyReply(EMERGENCY_SIGNS[i]), None)

\* C1 happens: in symptom mode, after a turn that recorded a condition, a
\* message with two emergency phrases, a greeting, an intent keyword and a
\* condition key got the warning for "chest pain".
EmergencyFirstWitness ==
    /\ Len(History) >= 2
    /\ History[1].condition = "headache"
    /\ request = Req(JsonString("Hi, medicine for fever? I had a stroke and chest pain"), TRUE)
    /\ response.body.reply = EmergencyReply("chest pain")
    /\ LastTurn.user = Message

\* the turns before the newest one
Earlier == SubSeq(History, 1, Len(History) - 1)

\* the last request was a precaution/medicine question that is no emergency,
\* no small talk, and names no condition
FollowUp ==
    /\ Answered /\ NonBlank
    /\ ~ContainsSign(lower(Message))
    /\ ~Truthy(match_smalltalk(Message))
    /\ HasIntent(Message)
    /\ ~Truthy(Detected(MED_KB, INDEX, Message).found.key)

\* C2: when an earlier turn recorded condition K and every later turn
\* recorded no condition, a follow-up question is answered with the
\* precautions and medicines of K, "Based on your previous condition", and
\* its turn records K.
FollowUpUsesRecordedCondition ==
    (FollowUp /\ response.status = 200 /\ Len(History) > 0 /\ LastTurn.user = Message) =>
        \A k \in 1..Len(Earlier) :
            (/\ Earlier[k].condition # None
             /\ \A j \in (k + 1)..Len(Earlier) : Earlier[j].condition = None)
            => /\ response.body.reply = PreviousConditionReply(MED_KB, Earlier[k].condition)
               /\ LastTurn.condition = Earlier[k].condition

\* C3: last_matched_condition_from_history gives None on an empty history,
\* and on a history with a recorded condition it gives the recorded
\* condition of the most recent turn that has one.
NearestRecordedCondition ==
    /\ History = <<>> => last_matched_condition_from_history(session) = None
    /\ \A k \in 1..Len(History) :
            (/\ History[k].condition # None
             /\ \A j \in (k + 1)..Len(History) : History[j].condition = None)
            => last_matched_condition_from_history(session) = History[k].condition

\* a direct call of find_condition_simple / symptom_checker was made
FindProbed == probe.fn = "find_condition_simple"
SymptomsProbed == probe.fn = "symptom_checker"

\* C4 as stated: for every key K of the knowledge base that the lowercased
\* message contains, find_condition_simple returns (K, 1.0), also when the
\* message contains another key that comes earlier in the knowledge base.
EveryContainedKeyReturned ==
    FindProbed =>
        \A i \in 1..Len(MED_KB) :
            In(MED_KB[i].key, lower(probe.input)) => probe.output = [key |-> MED_KB[i].key, score |-> One]

\* C4, amended: when the lowercased message contains a key of the knowledge
\* base, find_condition_simple returns (K, 1.0) for the first key K, in the
\* order of the knowledge base, that the message contains.
FirstContainedKeyReturned ==
    FindProbed =>
        \A i \in 1..Len(MED_KB) :
            (/\ In(MED_KB[i].key, lower(probe.input))
             /\ \A j \in 1..(i - 1) : ~In(MED_KB[j].key, lower(probe.input)))
            => probe.output = [key |-> MED_KB[i].key, score |-> One]

\* C4 happens: a message that contains two keys, the later one of the
\* knowledge base first, resolved to the earlier one.
FirstContainedKeyWitness ==
    /\ FindProbed
    /\ probe.input = "Headache fever"
    /\ probe.output = [key |-> "fever", score |-> One]

\* C5: every score symptom_checker returns lies in [0, 1].
ScoresWithinUnit ==
    SymptomsProbed =>
        \A i \in 1..Len(probe.output) :
            Le(Zero, probe.output[i].score) /\ Le(probe.output[i].score, One)

\* the keywords of an index entry that are not empty
NonEmptyKeywords(meta) == {k \in Range(meta.keywords) : k # ""}

\* C6: a symptom list in which every keyword of a condition occurs (each
\* keyword is a substring of some phrase) gives that condition score 1.0.
FullCoverageScoresOne ==
    SymptomsProbed =>
        \A c \in 1..Len(INDEX) :
            (/\ NonEmptyKeywords(INDEX[c]) # {}
             /\ \A kw \in NonEmptyKeywords(INDEX[c]) :
                    \E n \in 1..Len(probe.input) : In(kw, probe.input[n]))
            => \E i \in 1..Len(probe.output) :
                    /\ probe.output[i].key = INDEX[c].key
                    /\ Same(probe.output[i].score, One)

\* C7: a request with a non-blank message that chat() answers without a
\* fault leaves the history it found with exactly one turn added at the
\* end, holding the message and the reply; the earlier turns are kept as
\* they were, and the "history" field of the response is the new history.
OneTurnAppended ==
    [][(request'.message.type = "string" /\ strip(request'.message.value) # ""
        /\ response'.status = 200)
       => /\ Len(get_history(session')) = Len(History) + 1
          /\ SubSeq(get_history(session'), 1, Len(History)) = History
          /\ get_history(session')[Len(History) + 1].user = strip(request'.message.value)
          /\ get_history(session')[Len(History) + 1].bot = response'.body.reply
          /\ response'.body.history = get_history(session')]_vars

\* C7 happens: the history holds three turns, added by three different
\* stages, each still in its place.
OneTurnAppendedWitness ==
    /\ Len(History) = 3
    /\ History[1].condition = "fever"
    /\ History[2].bot = FALLBACK
    /\ History[3].user = "chest pain"
    /\ response.status = 200
    /\ response.body.history = History

\* C8: every turn of the history that records a condition records a key of
\* the knowledge base.
RecordedConditionsKnown ==
    \A i \in 1..Len(History) :
        History[i].condition # None => HasKey(MED_KB, History[i].condition)

\* C8 happens: the history holds a condition found by the keyword tier, a
\* condition resolved from the history for a follow-up question, and a
\* condition named in a medicine question.
RecordedConditionsWitness ==
    /\ Len(History) = 3
    /\ History[1].user = "I have chills" /\ History[1].condition = "fever"
    /\ History[2].user = "any precautions?" /\ History[2].condition = "fever"
    /\ History[3].user = "medicine for headache" /\ History[3].condition = "headache"

\* some turn of the history records a key that the knowledge base of the
\* running process does not have
Stale == \E i \in 1..Len(History) :
            History[i].condition # None /\ ~HasKey(MED_KB, History[i].condition)

\* C9: with a stale key in the history, a precaution/medicine question that
\* names no condition gets a normal reply, never the service-error response.
StaleKeyIsNoMatch ==
    (Stale /\ FollowUp) => response.status = 200

\* every overlapping request has been answered and its response received
AllDone == \A r \in 1..MaxOverlap : inflight[r].pc = "done"

\* C10: when the requests of one client overlap, the history the client
\* ends with holds the turn of every request that added one.
NoLostUpdate ==
    AllDone => Len(History) = Cardinality({r \in 1..MaxOverlap : inflight[r].modified})

\* the message of a request, trimmed, is blank (a missing message counts as "")
Blank(data) == data.message.type \in {"string", "null"} /\ MessageOf(data) = ""

\* C11: a request whose message is blank after trimming gets the
\* clarification reply, with or without symptom_mode, and the session
\* history stays as it was.
BlankLeavesHistory ==
    [][Blank(request') =>
          /\ response'.status = 200
          /\ response'.body.reply = BLANK_REPLY
          /\ get_history(session') = History]_vars

\* C11 happens: a blank message sent in symptom mode to a session that holds
\* a turn got the clarification reply, and the turn is still the only one.
BlankLeavesHistoryWitness ==
    /\ request = Req(JsonString("   "), TRUE)
    /\ response.body.reply = BLANK_REPLY
    /\ Len(History) = 1
    /\ History[1].user = "fever"

\* the stage that has to answer, by the fixed order, given what the
\* detectors find in the message
StageOf(d, symptom_mode) ==
    IF Truthy(d.small) THEN "smalltalk"
    ELSE IF d.intent THEN "intent"
    ELSE IF symptom_mode THEN "symptom"
    ELSE IF Truthy(d.found.key) THEN "condition"
    ELSE "fallback"

\* the replies the intent stage can give on a knowledge base
IntentReplies(kb) ==
    {NamedConditionReply(kb, kb[i].key) : i \in 1..Len(kb)}
    \cup {PreviousConditionReply(kb, kb[i].key) : i \in 1..Len(kb)}
    \cup {GenericPrecautionsReply(kb)}

\* the response body is the one the given stage produces
RepliedBy(stage, d, body) ==
    CASE stage = "smalltalk" -> body.reply = d.small
      [] stage = "intent"    -> body.reply \in IntentReplies(MED_KB) /\ "candidates" \notin DOMAIN body
      [] stage = "symptom"   -> /\ body.reply = SymptomReply(MED_KB, d.candidates)
                                /\ "candidates" \in DOMAIN body
                                /\ body.candidates = CandStructs(MED_KB, d.candidates)
      [] stage = "condition" -> body.reply = ConditionReply(MED_KB, d.found.key)
      [] stage = "fallback"  -> body.reply = FALLBACK

\* C12: a non-blank message without an emergency phrase is answered by the
\* first stage that applies in the order smalltalk/Q&A, precaution-medicine
\* intent, symptom mode, condition match, fallback.
StageOrder ==
    (Answered /\ NonBlank /\ ~ContainsSign(lower(Message))) =>
        /\ response.status = 200
        /\ RepliedBy(StageOf(Detected(MED_KB, INDEX, Message), request.symptom_mode),
                     Detected(MED_KB, INDEX, Message), response.body)

\* C12 happens: smalltalk won over an intent keyword, then the intent
\* keyword won over symptom mode, then symptom mode won over a condition
\* key in the message.
StageOrderWitness ==
    /\ Len(History) = 3
    /\ History[1].user = "thanks for the medicine" /\ History[1].bot = "You're welcome!"
    /\ History[2].user = "any precautions?" /\ History[2].bot = GenericPrecautionsReply(MED_KB)
    /\ request = Req(JsonString("headache"), TRUE)
    /\ "candidates" \in DOMAIN response.body
    /\ Len(response.body.candidates) = 1

\* the condition the answering stage has to record, given what the
\* detectors find in the message and what the earlier turns resolve to
ConditionOf(em, stage, found, resolved) ==
    IF em THEN None
    ELSE CASE stage = "smalltalk" -> None
           [] stage = "intent"    -> IF Truthy(found) THEN found ELSE resolved
           [] stage = "symptom"   -> None
           [] stage = "condition" -> found
           [] stage = "fallback"  -> None

\* the reply text is about condition k: it is one of the three replies that
\* carry the title of k
ReplyAbout(kb, k, reply) ==
    /\ HasKey(kb, k)
    /\ reply \in {NamedConditionReply(kb, k), PreviousConditionReply(kb, k), ConditionReply(kb, k)}

\* the turn records condition c, and a recorded condition is the one the
\* reply is about
RecordsCondition(turn, c) ==
    /\ turn.condition = c
    /\ c # None => ReplyAbout(MED_KB, c, turn.bot)

\* C13: the turn added for a request records no condition in the
\* emergency, smalltalk, symptom-mode and fallback stages and in the intent
\* stage that resolves no condition; it records a condition exactly in the
\* intent stage with a named or a resolved condition and in the
\* condition-match stage, and that condition is the one the reply is about.
TurnConditionByStage ==
    (Answered /\ NonBlank /\ response.status = 200 /\ Len(History) > 0 /\ LastTurn.user = Message) =>
        RecordsCondition(LastTurn,
            ConditionOf(ContainsSign(lower(Message)),
                        StageOf(Detected(MED_KB, INDEX, Message), request.symptom_mode),
                        Detected(MED_KB, INDEX, Message).found.key,
                        LastMatched(MED_KB, Earlier)))

\* C13 happens: an emergency turn without a condition, a medicine question
\* that names headache and records it, and a symptom-mode turn that lists
\* Headache and records nothing.
TurnConditionWitness ==
    /\ Len(History) = 3
    /\ History[1].user = "chest pain" /\ History[1].condition = None
    /\ History[2].user = "medicine for headache" /\ History[2].condition = "headache"
    /\ request = Req(JsonString("headache"), TRUE)
    /\ History[3].bot = SymptomReply(MED_KB, <<[key |-> "headache", score |-> Frac(1000, 1000)]>>)
    /\ History[3].condition = None

\* the reply texts a turn of the model can hold
ReplyTexts ==
    NullTurnTexts
    \cup UNION {UNION {{NamedConditionReply(kb, kb[i].key), PreviousConditionReply(kb, kb[i].key),
                        ConditionReply(kb, kb[i].key)} : i \in 1..Len(kb)} : kb \in KnowledgeFiles}

\* the positions, in the knowledge base, of the keys that occur in the
\* lowercased text
KeysIn(kb, t) == {i \in 1..Len(kb) : In(kb[i].key, lower(t))}

KeysInTable ==
    Tabulated([k \in {<<kb, t>> : kb \in KnowledgeFiles, t \in ReplyTexts} |-> KeysIn(k[1], k[2])])

KeysFound(kb, t) == Lookup(KeysInTable, <<kb, t>>, KeysIn(kb, t))

\* key number i of the knowledge base is the first one, in its order, that
\* occurs in the lowercased bot text of the turn
FirstKeyOfText(kb, i, entry) ==
    /\ i \in KeysFound(kb, entry.bot)
    /\ \A j \in 1..(i - 1) : j \notin KeysFound(kb, entry.bot)

\* what one turn yields by the two rules: its stored condition, else the
\* first key in its bot text, else nothing
Yields(kb, entry, c) ==
    IF entry.condition # None THEN c = entry.condition
    ELSE IF KeysFound(kb, entry.bot) # {}
    THEN \E i \in 1..Len(kb) : FirstKeyOfText(kb, i, entry) /\ c = kb[i].key
    ELSE c = None

SomeKeyIn(t) == \E i \in 1..Len(MED_KB) : In(MED_KB[i].key, t)

\* some non-empty keyword of entry number i of the index occurs in the text
KeywordOfIn(i, t) == \E k \in NonEmptyKeywords(INDEX[i]) : In(k, t)

\* C15: find_condition_simple stops at the first tier that gives a result.
\* A key in the message is decided by the key tier, also when a keyword of
\* an earlier condition occurs; with no key but a keyword in the message
\* the result is the first condition, in the order of the knowledge base,
\* that has such a keyword, with score 1.0; the fuzzy tier decides only
\* when neither a key nor a keyword occurs.
TiersShortCircuit ==
    FindProbed =>
        /\ \A i \in 1..Len(MED_KB) :
              (/\ In(MED_KB[i].key, lower(probe.input))
               /\ \A j \in 1..(i - 1) : ~In(MED_KB[j].key, lower(probe.input)))
              => probe.output = [key |-> MED_KB[i].key, score |-> One]
        /\ \A i \in 1..Len(INDEX) :
              (/\ ~SomeKeyIn(lower(probe.input))
               /\ KeywordOfIn(i, lower(probe.input))
               /\ \A j \in 1..(i - 1) : ~KeywordOfIn(j, lower(probe.input)))
              => probe.output = [key |-> INDEX[i].key, score |-> One]
        /\ (/\ ~SomeKeyIn(lower(probe.input))
            /\ \A i \in 1..Len(INDEX) : ~KeywordOfIn(i, lower(probe.input)))
           => probe.output = FuzzyFallback(INDEX, lower(probe.input))

\* C15 happens: a message with the keywords of two conditions and no key
\* resolved to the earlier condition with score 1.0.
TiersShortCircuitWitness ==
    /\ FindProbed
    /\ probe.input = "sore throat chills"
    /\ ~SomeKeyIn(lower(probe.input))
    /\ probe.output = [key |-> "fever", score |-> One]

\* a direct call of the fuzzy selection was made
FuzzyProbed == probe.fn = "fuzzy"

\* entry number i holds the maximum ratio of the list and is the first, in
\* the order of the knowledge base, to hold it
FirstMaximum(scores, i) ==
    /\ \A j \in 1..Len(scores) : Le(scores[j].score, scores[i].score)
    /\ \A j \in 1..(i - 1) : Lt(scores[j].score, scores[i].score)

\* C16: the fuzzy tier returns the condition with the maximum ratio, the
\* first in the order of the knowledge base among those tied at it, when
\* that ratio is at least 0.45 (0.45 itself is accepted), and (None, 0.0)
\* when every ratio is below 0.45 or there is no condition.
FuzzyPicksFirstMaximum ==
    FuzzyProbed =>
        /\ (\A j \in 1..Len(probe.input) : Lt(probe.input[j].score, FuzzyThreshold))
              => probe.output = [key |-> None, score |-> Zero]
        /\ \A i \in 1..Len(probe.input) :
              (FirstMaximum(probe.input, i) /\ Le(FuzzyThreshold, probe.input[i].score))
              => /\ probe.output.key = probe.input[i].key
                 /\ Same(probe.output.score, probe.input[i].score)

\* C16 happens: the first condition is just below 0.45 and the other two
\* are tied at exactly 0.45; the earlier of the two was returned.
FuzzyPicksFirstMaximumWitness ==
    /\ FuzzyProbed
    /\ Len(probe.input) = 3
    /\ probe.input[1].score = Frac(449, 1000)
    /\ probe.input[2].score = Frac(45, 100)
    /\ probe.input[3].score = Frac(9, 20)
    /\ probe.output = [key |-> "sore_throat", score |-> Frac(45, 100)]

\* the replies of the stages that discuss no condition: the generic
\* precautions prompt, the fallback, smalltalk and Q&A, the emergency warning
NoConditionTexts ==
    {GenericPrecautionsReply(MED_KB), FALLBACK}
    \cup {QA_MAP[i].a : i \in 1..Len(QA_MAP)}
    \cup {SMALLTALK_PATTERNS[i].responses[1] : i \in 1..Len(SMALLTALK_PATTERNS)}
    \cup {EmergencyReply(EMERGENCY_SIGNS[i]) : i \in 1..Len(EMERGENCY_SIGNS)}

\* every earlier turn of the session was answered by one of those stages
NothingDiscussed ==
    \A i \in 1..Len(Earlier) :
        Earlier[i].condition = None /\ Earlier[i].bot \in NoConditionTexts

\* C17: in a session in which no condition was named and symptom mode was
\* not used, whose turns were answered by the generic prompt, the fallback,
\* smalltalk or the emergency warning, a precaution/medicine question that
\* names no condition gets the generic "I don't know which condition you
\* mean" reply and records no condition.
UnresolvedStaysUnresolved ==
    (FollowUp /\ response.status = 200 /\ Len(History) > 0 /\ LastTurn.user = Message
     /\ NothingDiscussed) =>
        /\ response.body.reply = GenericPrecautionsReply(MED_KB)
        /\ LastTurn.condition = None

\* chat() on the same session and payload in a process that built the
\* index ix from the same knowledge base
ChatWithIndex(ix, sess, data) ==
    Stages(sess, MessageOf(data), data.symptom_mode, Detected(MED_KB, ix, MessageOf(data)))

\* C18: chat() is a function of the message, the symptom_mode flag, the
\* knowledge base, the medicines and the session history: a run in any
\* process started on the same files, whatever order its keyword sets
\* iterate in, gives the same reply and adds the same turn.
SameAnswerInEveryProcess ==
    [][request'.message.type = "string" =>
          \A ix \in BuildIndex(MED_KB) :
              /\ ChatWithIndex(ix, session, request').body = response'.body
              /\ ChatWithIndex(ix, session, request').session = session']_vars

\* C19: a request that ends in the fault path ("Server error occurred.",
\* status 500) leaves the session history exactly as it was before the
\* request.
FaultLeavesHistory ==
    [][response'.status = 500 =>
          /\ response'.body.reply = "Server error occurred."
          /\ session' = session
          /\ get_history(session') = History]_vars

\* C19 happens: after a restart on a knowledge file without headache, the
\* follow-up question on the recorded headache faulted, and the history
\* still holds the one turn it held.
FaultLeavesHistoryWitness ==
    /\ reloads = 1
    /\ request = Req(JsonString("any precautions?"), FALSE)
    /\ response.status = 500
    /\ Len(History) = 1
    /\ History[1].condition = "headache"

====
